---- MODULE Spec2Model ----
(***************************************************************************)
(* Payment / billing-cycle core of the ISP customer control program.       *)
(*                                                                         *)
(* database.py : DatabaseManager (connection "dm": customers,              *)
(*               payment_methods, payments, the payment_due_trigger)       *)
(* app.py      : PaymentMonitor / ISPInterface (connection "monitor":      *)
(*               payment_notifications, service_status, the sweep)         *)
(*                                                                         *)
(* Both connections are opened on the same SQLite database file.  The      *)
(* store is modelled as the committed database (store) plus the view of    *)
(* the DatabaseManager connection (work), which differs from store while   *)
(* that connection has an open transaction (inTx).  Python's sqlite3       *)
(* opens a transaction implicitly before INSERT/UPDATE, commit() makes     *)
(* work the committed store, rollback() resets work to store.              *)
(***************************************************************************)
EXTENDS Integers, Sequences, FiniteSets, TLC

(***************************************************************************)
(* Bounds of the model                                                     *)
(***************************************************************************)
MaxCustomers == 2
MaxRows == 2
MaxStatusRows == 2
MaxSweeps == 2
MaxDays == 95

(***************************************************************************)
(* Calendar dates, as datetime handles them                                *)
(***************************************************************************)
D(y, m, d) == [y |-> y, m |-> m, d |-> d]

NoDate == D(0, 0, 0)

NULL == -1

IsLeap(y) == (y % 4 = 0 /\ y % 100 # 0) \/ y % 400 = 0

DaysInMonth(y, m) ==
    IF m = 2 THEN (IF IsLeap(y) THEN 29 ELSE 28)
    ELSE IF m \in {4, 6, 9, 11} THEN 30 ELSE 31

ValidDate(dt) == dt.m \in 1..12 /\ dt.d >= 1 /\ dt.d <= DaysInMonth(dt.y, dt.m)

DateLT(a, b) ==
    \/ a.y < b.y
    \/ a.y = b.y /\ a.m < b.m
    \/ a.y = b.y /\ a.m = b.m /\ a.d < b.d

DateLE(a, b) == a = b \/ DateLT(a, b)

\* datetime.replace: the result, or NoDate when replace raises ValueError
Replace(dt, y, m, d) == IF ValidDate(D(y, m, d)) THEN D(y, m, d) ELSE NoDate

(***************************************************************************)
(* Inputs                                                                  *)
(***************************************************************************)
ContractDates == {D(2024, 1, 15), D(2024, 12, 25)}

PaymentDays == {20, 30}

Values == {50}

ClockDates == {D(2024, 1, 10), D(2024, 1, 25), D(2024, 3, 31)}

CustomerIds == 1..MaxCustomers

VARIABLES store, work, inTx, mwork, mTx, notifTables, today, result,
          expired_tree, notif_text, bg, sweeps, report, listing

vars == <<store, work, inTx, mwork, mTx, notifTables, today, result,
          expired_tree, notif_text, bg, sweeps, report, listing>>

(***************************************************************************)
(* The database: one set of rows per table, and the AUTOINCREMENT          *)
(* counters of sqlite_sequence (which are transactional as well).          *)
(***************************************************************************)
EmptyDb ==
    [customers |-> {}, payment_methods |-> {}, payments |-> {},
     payment_notifications |-> {}, service_status |-> {},
     seq_customers |-> 0, seq_methods |-> 0, seq_payments |-> 0,
     seq_notifications |-> 0, seq_status |-> 0]

\* What the last call returned to its caller: ok is the success flag,
\* raised says that an exception left the function instead of a return,
\* success_count / error_count are the counts import_excel_data reports.
Res(op, ok, cid, raised, sc, ec) ==
    [op |-> op, ok |-> ok, cid |-> cid, raised |-> raised,
     success_count |-> sc, error_count |-> ec]

NoResult == Res("none", FALSE, 0, FALSE, 0, 0)

\* What the reporting surfaces show for one record (see render_surfaces)
Report(shown, paid, delta, midnight, payment_status, days, status, counted) ==
    [shown |-> shown, paid |-> paid, delta |-> delta, midnight |-> midnight,
     payment_status |-> payment_status, days_to_expire |-> days,
     status |-> status, counted |-> counted]

NoReport == Report(FALSE, FALSE, 0, FALSE, "none", 0, "none", "none")

\* What get_all_customers returned last: the payment_status filter it was
\* called with and the rows
NoListing == [filter |-> "none", rows |-> {}]

Init ==
    /\ store = EmptyDb
    /\ work = EmptyDb
    /\ inTx = FALSE
    /\ mwork = EmptyDb
    /\ mTx = "none"
    /\ notifTables = FALSE
    /\ today \in {D(2024, 1, 10)}
    /\ result = NoResult
    /\ expired_tree = {}
    /\ notif_text = {}
    /\ bg = "running"
    /\ sweeps = 0
    /\ report = NoReport
    /\ listing = NoListing

(***************************************************************************)
(* The two connections on the one database file (WAL journal mode).        *)
(*   work / inTx : the DatabaseManager connection.  It holds the write     *)
(*                 lock exactly while it has uncommitted writes.           *)
(*   mwork / mTx : the PaymentMonitor connection.  mTx is "none" (no       *)
(*                 transaction), "open" (a transaction was begun by a      *)
(*                 statement that failed), "read" (open transaction that   *)
(*                 has read: it sees the snapshot mwork) or "write" (it    *)
(*                 holds the write lock and mwork has uncommitted rows).   *)
(*                 PaymentMonitor never calls rollback().                  *)
(***************************************************************************)
dm_holds_lock == inTx /\ work # store

monitor_holds_lock == mTx = "write"

\* what a SELECT on the monitor connection sees
mview == IF mTx \in {"none", "open"} THEN store ELSE mwork

\* the monitor connection's view once st has been committed by the other one
mwork_after(st) == IF mTx \in {"none", "open"} THEN st ELSE mwork

\* a SELECT inside an open transaction fixes the snapshot
mTx_after_read == IF mTx = "open" THEN "read" ELSE mTx

(***************************************************************************)
(* DatabaseManager.register_customer                                       *)
(***************************************************************************)
\* lines 138-151: the first due date; NoDate when a replace raises ValueError
first_due_date_rolled(due, now) ==
    IF due.d < now.d
    THEN IF due.m = 12 THEN Replace(due, due.y + 1, 1, due.d)
         ELSE Replace(due, due.y, due.m + 1, due.d)
    ELSE due

first_due_date(contract_date, payment_day, now) ==
    LET due == Replace(contract_date, contract_date.y, contract_date.m, payment_day)
    IN IF due = NoDate THEN NoDate ELSE first_due_date_rolled(due, now)

insert_customer(db, contract_date, payment_day) ==
    [db EXCEPT !.seq_customers = @ + 1,
               !.customers = @ \cup {[customer_id |-> db.seq_customers + 1,
                                      state |-> "Active",
                                      contract_date |-> contract_date,
                                      payment_day |-> payment_day]}]

insert_payment_method(db, cid) ==
    [db EXCEPT !.seq_methods = @ + 1,
               !.payment_methods = @ \cup {[payment_method_id |-> db.seq_methods + 1,
                                            customer_id |-> cid]}]

\* payment_due_trigger: AFTER INSERT ON payments ... WHERE NEW.payment_made = 0
payment_due_trigger(db, cid, due, made, now) ==
    IF made = 0
    THEN [db EXCEPT !.seq_notifications = @ + 1,
                    !.payment_notifications = @ \cup
                        {[notification_id |-> db.seq_notifications + 1,
                          customer_id |-> cid,
                          message |-> "Payment due on",
                          about |-> due,
                          notification_date |-> now,
                          status |-> "PENDING"]}]
    ELSE db

\* variant: the obligation is inserted twice (two rows, two trigger firings)
insert_payment_twice(db, cid, due, value, now) ==
    LET row(n) == [payment_id |-> db.seq_payments + n, customer_id |-> cid,
                   payment_date |-> NoDate, due_date |-> due, value |-> value,
                   payment_made |-> 0]
        db1 == [db EXCEPT !.seq_payments = @ + 2,
                          !.payments = @ \cup {row(1), row(2)}]
    IN payment_due_trigger(payment_due_trigger(db1, cid, due, 0, now), cid, due, 0, now)

insert_payment(db, cid, due, value, now) ==
    payment_due_trigger(
        [db EXCEPT !.seq_payments = @ + 1,
                   !.payments = @ \cup {[payment_id |-> db.seq_payments + 1,
                                         customer_id |-> cid,
                                         payment_date |-> NoDate,
                                         due_date |-> due,
                                         value |-> value,
                                         payment_made |-> 0]}],
        cid, due, 0, now)

\* The effect of one call on the connection: committed store st, view db.
\* outcome: "ok" (True, id), "sqlerr" (False, msg), "raised" (ValueError
\* leaves the function, the transaction stays open).  locked: the other
\* connection holds the write lock, the first INSERT fails with "database
\* is locked" and line 168 rolls back.
register_customer_on(st, db, contract_date, payment_day, value, now, tables, locked) ==
    LET cid == db.seq_customers + 1
        db2 == insert_payment_method(insert_customer(db, contract_date, payment_day), cid)
        due == first_due_date(contract_date, payment_day, now)
    IN IF locked
       THEN [store |-> st, work |-> st, inTx |-> FALSE, outcome |-> "sqlerr", cid |-> cid]
       ELSE IF due = NoDate
       THEN [store |-> st, work |-> db2, inTx |-> TRUE, outcome |-> "raised", cid |-> cid]
       ELSE IF ~tables
       THEN [store |-> st, work |-> st, inTx |-> FALSE, outcome |-> "sqlerr", cid |-> cid]
       ELSE LET db3 == insert_payment(db2, cid, due, value, now)
            IN [store |-> db3, work |-> db3, inTx |-> FALSE, outcome |-> "ok", cid |-> cid]

register_customer(contract_date, payment_day, value) ==
    /\ work.seq_customers < MaxCustomers
    /\ LET r == register_customer_on(store, work, contract_date, payment_day, value,
                                     today, notifTables, monitor_holds_lock)
       IN /\ store' = r.store
          /\ work' = r.work
          /\ inTx' = r.inTx
          /\ mwork' = mwork_after(r.store)
          /\ result' = Res("register_customer", r.outcome = "ok", r.cid,
                           r.outcome = "raised", 0, 0)
    /\ sweeps' = 0
    /\ UNCHANGED <<mTx, notifTables, today, expired_tree, notif_text, bg, report, listing>>

(***************************************************************************)
(* DatabaseManager.record_payment / update_customer_status                 *)
(***************************************************************************)
update_payments_paid(db, cid, now) ==
    [db EXCEPT !.payments =
        {IF p.customer_id = cid /\ p.payment_made = 0
         THEN [p EXCEPT !.payment_made = 1, !.payment_date = now]
         ELSE p : p \in @}]

\* variant: the UPDATE is never committed
record_payment_uncommitted(cid) ==
    /\ ~monitor_holds_lock
    /\ work' = update_payments_paid(work, cid, today)
    /\ inTx' = TRUE
    /\ result' = Res("record_payment", TRUE, cid, FALSE, 0, 0)
    /\ sweeps' = 0
    /\ UNCHANGED <<store, mwork, mTx, notifTables, today, expired_tree, notif_text,
                   bg, report, listing>>

\* With the write lock held by the other connection the UPDATE fails with
\* "database is locked": False is returned, the transaction that the UPDATE
\* began implicitly stays open (no rollback in the except branch).
record_payment(cid) ==
    /\ IF monitor_holds_lock
       THEN /\ UNCHANGED <<store, work, mwork>>
            /\ inTx' = TRUE
            /\ result' = Res("record_payment", FALSE, cid, FALSE, 0, 0)
       ELSE /\ LET db == update_payments_paid(work, cid, today)
               IN /\ store' = db
                  /\ work' = db
                  /\ mwork' = mwork_after(db)
            /\ inTx' = FALSE
            /\ result' = Res("record_payment", TRUE, cid, FALSE, 0, 0)
    /\ sweeps' = 0
    /\ UNCHANGED <<mTx, notifTables, today, expired_tree, notif_text, bg, report, listing>>

update_customers_state(db, cid, new_status) ==
    [db EXCEPT !.customers =
        {IF c.customer_id = cid THEN [c EXCEPT !.state = new_status] ELSE c : c \in @}]

update_customer_status(cid, new_status) ==
    /\ IF monitor_holds_lock
       THEN /\ UNCHANGED <<store, work, mwork>>
            /\ inTx' = TRUE
            /\ result' = Res("update_customer_status", FALSE, cid, FALSE, 0, 0)
       ELSE /\ LET db == update_customers_state(work, cid, new_status)
               IN /\ store' = db
                  /\ work' = db
                  /\ mwork' = mwork_after(db)
            /\ inTx' = FALSE
            /\ result' = Res("update_customer_status", TRUE, cid, FALSE, 0, 0)
    /\ sweeps' = 0
    /\ UNCHANGED <<mTx, notifTables, today, expired_tree, notif_text, bg, report, listing>>

(***************************************************************************)
(* DatabaseManager.import_excel_data                                       *)
(***************************************************************************)
ImportRowSet ==
    [mbps_ok : BOOLEAN, contract_date : ContractDates,
     payment_day : PaymentDays, value : Values]

\* lines 318-347: one row of the loop, on the loop state
\* a = [store, work, inTx, success_count, error_count]
import_row(a, row, now, tables, locked) ==
    IF ~row.mbps_ok
    THEN [a EXCEPT !.error_count = @ + 1]
    ELSE LET r == register_customer_on(a.store, a.work, row.contract_date,
                                       row.payment_day, row.value, now, tables, locked)
         IN [store |-> r.store, work |-> r.work, inTx |-> r.inTx,
             success_count |-> a.success_count + (IF r.outcome = "ok" THEN 1 ELSE 0),
             error_count |-> a.error_count + (IF r.outcome = "ok" THEN 0 ELSE 1)]

RECURSIVE import_rows(_, _, _, _, _)
import_rows(a, rows, now, tables, locked) ==
    IF rows = <<>> THEN a
    ELSE import_rows(import_row(a, Head(rows), now, tables, locked), Tail(rows),
                     now, tables, locked)

\* lines 349-359: commit when no row failed, otherwise rollback
import_finish(a) ==
    IF a.error_count = 0
    THEN [a EXCEPT !.store = a.work, !.inTx = FALSE]
    ELSE [a EXCEPT !.work = a.store, !.inTx = FALSE]

import_excel_data_on(st, db, tx, rows, now, tables, locked) ==
    IF tx
    THEN \* BEGIN TRANSACTION inside a transaction: OperationalError, line 361
         [store |-> st, work |-> st, inTx |-> FALSE,
          success_count |-> 0, error_count |-> 0, began |-> FALSE]
    ELSE LET a == import_rows([store |-> st, work |-> db, inTx |-> TRUE,
                               success_count |-> 0, error_count |-> 0],
                              rows, now, tables, locked)
             f == import_finish(a)
         IN [store |-> f.store, work |-> f.work, inTx |-> f.inTx,
             success_count |-> f.success_count, error_count |-> f.error_count,
             began |-> TRUE]

import_excel_data(rows) ==
    /\ work.seq_customers + Len(rows) <= MaxCustomers
    /\ LET r == import_excel_data_on(store, work, inTx, rows, today, notifTables,
                                     monitor_holds_lock)
       IN /\ store' = r.store
          /\ work' = r.work
          /\ inTx' = r.inTx
          /\ mwork' = mwork_after(r.store)
          /\ result' = Res("import_excel_data", r.began /\ r.error_count = 0, 0,
                           FALSE, r.success_count, r.error_count)
    /\ sweeps' = 0
    /\ UNCHANGED <<mTx, notifTables, today, expired_tree, notif_text, bg, report, listing>>

(***************************************************************************)
(* PaymentMonitor / ISPInterface (app.py)                                  *)
(***************************************************************************)
\* PaymentMonitor.__init__ -> setup_triggers: creates payment_notifications
\* and service_status.  The DDL needs the write lock of the database.
monitor_setup_triggers ==
    /\ ~notifTables
    /\ ~inTx
    /\ notifTables' = TRUE
    /\ sweeps' = 0
    /\ UNCHANGED <<store, work, inTx, mwork, mTx, today, result, expired_tree,
                   notif_text, bg, report, listing>>

\* the rows of the SELECT of check_expired_payments, one per joined row
check_expired_payments(db, now) ==
    LET joined(c, p) ==
            LET ss == {s \in db.service_status : s.customer_id = c.customer_id}
            IN IF ss = {}
               THEN {[customer_id |-> c.customer_id, due_date |-> p.due_date,
                      value |-> p.value, is_active |-> NULL,
                      payment_id |-> p.payment_id, status_id |-> 0]}
               ELSE {[customer_id |-> c.customer_id, due_date |-> p.due_date,
                      value |-> p.value, is_active |-> s.is_active,
                      payment_id |-> p.payment_id, status_id |-> s.status_id] : s \in ss}
        rows == UNION {joined(c, p) : <<c, p>> \in
                        {cp \in db.customers \X db.payments :
                            cp[1].customer_id = cp[2].customer_id}}
    IN {r \in rows :
          /\ \E p \in db.payments : p.payment_id = r.payment_id /\ p.payment_made = 0
          /\ DateLT(r.due_date, now)
          /\ (r.is_active = 1 \/ r.is_active = NULL)}

\* line 684: status = "Active" if payment[4] else "Inactive"
tree_status(is_active) == IF is_active = 1 THEN "Active" ELSE "Inactive"

tree_rows(expired) ==
    {[customer_id |-> r.customer_id, due_date |-> r.due_date, value |-> r.value,
      status |-> tree_status(r.is_active),
      payment_id |-> r.payment_id, status_id |-> r.status_id] : r \in expired}

refresh_expired_payments(db, now) == tree_rows(check_expired_payments(db, now))

text_lines(expired) ==
    {[customer_id |-> r.customer_id, due_date |-> r.due_date, value |-> r.value,
      payment_id |-> r.payment_id, status_id |-> r.status_id] : r \in expired}

\* variant: the sweep appends a PENDING notification per overdue row
check_payments_appending ==
    /\ notifTables
    /\ sweeps < MaxSweeps
    /\ ~dm_holds_lock
    /\ mTx = "none"
    /\ LET expired == check_expired_payments(store, today)
           RECURSIVE flagged(_, _)
           flagged(db, rs) ==
               IF rs = {} THEN db
               ELSE LET r == CHOOSE x \in rs : TRUE
                    IN flagged(payment_due_trigger(db, r.customer_id, r.due_date, 0, today),
                               rs \ {r})
           db2 == flagged(store, expired)
       IN /\ notif_text' = IF expired # {} THEN text_lines(expired) ELSE notif_text
          /\ expired_tree' = refresh_expired_payments(store, today)
          /\ store' = db2
          /\ work' = db2
          /\ mwork' = db2
    /\ sweeps' = sweeps + 1
    /\ result' = Res("check_payments", TRUE, 0, FALSE, 0, 0)
    /\ UNCHANGED <<inTx, mTx, notifTables, today, bg, report, listing>>

\* variant: the sweep deactivates the service of every overdue customer
check_payments_deactivating ==
    /\ notifTables
    /\ sweeps < MaxSweeps
    /\ ~dm_holds_lock
    /\ mTx = "none"
    /\ LET expired == check_expired_payments(store, today)
           db2 == [store EXCEPT !.customers =
                       {IF \E r \in expired : r.customer_id = c.customer_id
                        THEN [c EXCEPT !.state = "Inactive"] ELSE c : c \in @}]
       IN /\ notif_text' = IF expired # {} THEN text_lines(expired) ELSE notif_text
          /\ expired_tree' = refresh_expired_payments(store, today)
          /\ store' = db2
          /\ work' = db2
          /\ mwork' = db2
    /\ sweeps' = sweeps + 1
    /\ result' = Res("check_payments", TRUE, 0, FALSE, 0, 0)
    /\ UNCHANGED <<inTx, mTx, notifTables, today, bg, report, listing>>

\* ISPInterface.check_payments, run by the thread that owns the connection
\* (the initial check of ISPInterface.run): the sweep.  sweeps counts the
\* sweeps run since the data or the date last changed.
check_payments ==
    /\ notifTables
    /\ sweeps < MaxSweeps
    /\ LET expired == check_expired_payments(mview, today)
       IN /\ notif_text' = IF expired # {} THEN text_lines(expired) ELSE notif_text
          /\ expired_tree' = refresh_expired_payments(mview, today)
    /\ mwork' = mview
    /\ mTx' = mTx_after_read
    /\ sweeps' = sweeps + 1
    /\ result' = Res("check_payments", TRUE, 0, FALSE, 0, 0)
    /\ UNCHANGED <<store, work, inTx, notifTables, today, bg, report, listing>>

\* start_monitoring: the job schedule runs check_payments on the background
\* thread.  The connection was created by the interactive thread with the
\* default check_same_thread: cursor.execute raises ProgrammingError, the
\* exception leaves run_schedule and the background thread ends.
scheduled_check_payments ==
    /\ notifTables
    /\ bg = "running"
    /\ bg' = "dead"
    /\ result' = Res("scheduled_check_payments", FALSE, 0, TRUE, 0, 0)
    /\ UNCHANGED <<store, work, inTx, mwork, mTx, notifTables, today,
                   expired_tree, notif_text, sweeps, report, listing>>

\* PaymentMonitor.toggle_service_status, lines 615-626
insert_service_status(db, cid, activate, now) ==
    [db EXCEPT !.seq_status = @ + 1,
               !.service_status = @ \cup {[status_id |-> db.seq_status + 1,
                                           customer_id |-> cid,
                                           is_active |-> IF activate THEN 1 ELSE 0,
                                           last_status_change |-> now]}]

insert_info_notification(db, cid, activate, now) ==
    [db EXCEPT !.seq_notifications = @ + 1,
               !.payment_notifications = @ \cup
                   {[notification_id |-> db.seq_notifications + 1,
                     customer_id |-> cid,
                     message |-> IF activate THEN "Service activated"
                                 ELSE "Service deactivated",
                     about |-> NoDate,
                     notification_date |-> now,
                     status |-> "INFO"]}]

toggle_service_status(db, cid, activate, now) ==
    insert_info_notification(insert_service_status(db, cid, activate, now),
                             cid, activate, now)

\* where a storage error (sqlite3.Error) strikes inside toggle_service_status
Faults == {"none", "notification_insert"}

\* ISPInterface.toggle_selected_service on the selected tree item, with
\* PaymentMonitor.toggle_service_status inlined.  The except branch of
\* toggle_service_status returns False without a rollback.
toggle_selected_service(item, fault) ==
    /\ notifTables
    /\ item \in expired_tree
    /\ mview.seq_status < MaxStatusRows
    /\ LET new_status == item.status # "Active"
           cid == item.customer_id
           db1 == insert_service_status(mview, cid, new_status, today)
           db2 == toggle_service_status(mview, cid, new_status, today)
       IN IF dm_holds_lock
          THEN \* the other connection holds the write lock: database is locked
               /\ mTx' = IF mTx = "none" THEN "open" ELSE mTx
               /\ UNCHANGED <<store, work, mwork, expired_tree>>
               /\ result' = Res("toggle_service_status", FALSE, cid, FALSE, 0, 0)
          ELSE IF mTx = "read" /\ mwork # store
          THEN \* the snapshot of the open transaction is stale: database is locked
               /\ UNCHANGED <<store, work, mwork, mTx, expired_tree>>
               /\ result' = Res("toggle_service_status", FALSE, cid, FALSE, 0, 0)
          ELSE IF fault = "notification_insert"
          THEN \* the status row stays pending in the open transaction
               /\ mwork' = db1
               /\ mTx' = "write"
               /\ UNCHANGED <<store, work, expired_tree>>
               /\ result' = Res("toggle_service_status", FALSE, cid, FALSE, 0, 0)
          ELSE /\ store' = db2
               /\ work' = db2
               /\ mwork' = db2
               /\ mTx' = "none"
               /\ expired_tree' = refresh_expired_payments(db2, today)
               /\ result' = Res("toggle_service_status", TRUE, cid, FALSE, 0, 0)
    /\ sweeps' = 0
    /\ UNCHANGED <<inTx, notifTables, today, notif_text, bg, report, listing>>

\* the calendar date moves on
Tick ==
    /\ \E n \in ClockDates : DateLT(today, n) /\ today' = n
    /\ sweeps' = 0
    /\ UNCHANGED <<store, work, inTx, mwork, mTx, notifTables, result,
                   expired_tree, notif_text, bg, report, listing>>

ImportInputs == UNION {[1..n -> ImportRowSet] : n \in 1..MaxRows}

\* The operations on the thread that owns each connection, without storage
\* errors.
Next ==
    \/ \E c \in ContractDates, p \in PaymentDays, v \in Values : register_customer(c, p, v)
    \/ \E cid \in CustomerIds : record_payment(cid)
    \/ \E cid \in CustomerIds, s \in {"Active", "Inactive"} : update_customer_status(cid, s)
    \/ \E rows \in ImportInputs : import_excel_data(rows)
    \/ monitor_setup_triggers
    \/ check_payments
    \/ \E item \in expired_tree : toggle_selected_service(item, "none")
    \/ Tick

Spec == Init /\ [][Next]_vars

\* The same operations, with storage errors inside toggle_service_status.
NextFault ==
    \/ \E c \in ContractDates, p \in PaymentDays, v \in Values : register_customer(c, p, v)
    \/ \E cid \in CustomerIds : record_payment(cid)
    \/ \E cid \in CustomerIds, s \in {"Active", "Inactive"} : update_customer_status(cid, s)
    \/ \E rows \in ImportInputs : import_excel_data(rows)
    \/ monitor_setup_triggers
    \/ check_payments
    \/ \E item \in expired_tree, fault \in Faults : toggle_selected_service(item, fault)
    \/ Tick

SpecFault == Init /\ [][NextFault]_vars

\* The same operations, with the scheduled sweep of the background thread.
NextThreads ==
    \/ \E c \in ContractDates, p \in PaymentDays, v \in Values : register_customer(c, p, v)
    \/ \E cid \in CustomerIds : record_payment(cid)
    \/ \E cid \in CustomerIds, s \in {"Active", "Inactive"} : update_customer_status(cid, s)
    \/ \E rows \in ImportInputs : import_excel_data(rows)
    \/ monitor_setup_triggers
    \/ check_payments
    \/ scheduled_check_payments
    \/ \E item \in expired_tree : toggle_selected_service(item, "none")
    \/ Tick

SpecThreads == Init /\ [][NextThreads]_vars

\* PaymentMonitor.calculate_next_due_date: current_due_date + timedelta(days=30).
\* No handler calls it.
next_day(dt) ==
    IF dt.d < DaysInMonth(dt.y, dt.m) THEN D(dt.y, dt.m, dt.d + 1)
    ELSE IF dt.m < 12 THEN D(dt.y, dt.m + 1, 1)
    ELSE D(dt.y + 1, 1, 1)

RECURSIVE add_days(_, _)
add_days(dt, n) == IF n = 0 THEN dt ELSE add_days(next_day(dt), n - 1)

calculate_next_due_date(current_due_date) == add_days(current_due_date, 30)

\* The operations of Spec where the program goes on as long as some step
\* is possible.
SpecCycle == Init /\ [][Next]_vars /\ WF_vars(Next)

(***************************************************************************)
(* The status shown for one record on the reporting surfaces.  delta is    *)
(* the classified date minus today's date in days; midnight says whether   *)
(* datetime.now() falls exactly on 00:00:00.                               *)
(***************************************************************************)
Deltas == (0 - MaxDays)..MaxDays

\* database.py 187-191: the CASE expression of get_all_customers
payment_status(paid, delta) ==
    IF paid THEN "Paid" ELSE IF delta < 0 THEN "Overdue" ELSE "Pending"

\* app.py 114 and 264: (date - datetime.now()).dt.days, the floor of the
\* difference in days; the date is parsed as midnight
days_to_expire(delta, midnight) == IF midnight THEN delta ELSE delta - 1

\* app.py 115-119: pd.cut with bins (-inf, 0], (0, 30], (30, 90], (90, inf)
cut_status(days) ==
    IF days <= 0 THEN "Expired"
    ELSE IF days <= 30 THEN "Critical"
    ELSE IF days <= 90 THEN "Warning" ELSE "OK"

\* app.py 269-274: the metric in which show_expiration_analysis counts the row
analysis_metric(days) ==
    IF days < 0 THEN "Expired"
    ELSE IF days >= 0 /\ days <= 30 THEN "Critical" ELSE "none"

render_surfaces(paid, delta, midnight) ==
    /\ report' = Report(TRUE, paid, delta, midnight,
                        payment_status(paid, delta),
                        days_to_expire(delta, midnight),
                        cut_status(days_to_expire(delta, midnight)),
                        analysis_metric(days_to_expire(delta, midnight)))
    /\ UNCHANGED <<store, work, inTx, mwork, mTx, notifTables, today, result,
                   expired_tree, notif_text, bg, sweeps, listing>>

NextReport == \E paid \in BOOLEAN, delta \in Deltas, midnight \in BOOLEAN :
                  render_surfaces(paid, delta, midnight)

SpecReport == Init /\ [][NextReport]_vars

(***************************************************************************)
(* DatabaseManager.get_all_customers                                       *)
(***************************************************************************)
\* filters['payment_status']: "" is no filter (filters.get is falsy)
StatusFilters == {"", "Paid", "Overdue", "Pending"}

\* the columns of payments on a row for which the LEFT JOIN found no record
NullPayment ==
    [payment_id |-> NULL, customer_id |-> NULL, payment_date |-> NoDate,
     due_date |-> NoDate, value |-> NULL, payment_made |-> NULL]

\* lines 187-191 on a joined row; on NullPayment every WHEN is NULL and the
\* ELSE applies
row_payment_status(p, now) ==
    IF p = NullPayment THEN payment_status(FALSE, 0)
    ELSE payment_status(p.payment_made = 1, IF DateLT(p.due_date, now) THEN 0 - 1 ELSE 0)

\* lines 206-212: the condition added to WHERE; NULL is not true
filter_condition(filter, p, now) ==
    IF filter = "" THEN TRUE
    ELSE IF p = NullPayment THEN FALSE
    ELSE IF filter = "Paid" THEN p.payment_made = 1
    ELSE IF filter = "Overdue" THEN p.payment_made = 0 /\ DateLT(p.due_date, now)
    ELSE p.payment_made = 0 /\ ~DateLT(p.due_date, now)

\* the rows of the SELECT (at most MaxCustomers rows: the LIMIT of 100
\* never cuts), one per customer x payment method x payment record
select_customers(db, now, filter) ==
    LET methods(c) ==
            LET ms == {m.payment_method_id : m \in
                          {x \in db.payment_methods : x.customer_id = c.customer_id}}
            IN IF ms = {} THEN {NULL} ELSE ms
        payments(c) ==
            LET ps == {p \in db.payments : p.customer_id = c.customer_id}
            IN IF ps = {} THEN {NullPayment} ELSE ps
    IN UNION {{[customer_id |-> c.customer_id,
                state |-> c.state,
                payment_method_id |-> m,
                payment_id |-> p.payment_id,
                payment_status |-> row_payment_status(p, now)] :
                   <<m, p>> \in {mp \in methods(c) \X payments(c) :
                                    filter_condition(filter, mp[2], now)}} :
              c \in db.customers}

get_all_customers(filter) ==
    /\ listing' = [filter |-> filter, rows |-> select_customers(work, today, filter)]
    /\ UNCHANGED <<store, work, inTx, mwork, mTx, notifTables, today, result,
                   expired_tree, notif_text, bg, sweeps, report>>

\* The operations of the customer management page and the customer list.
NextList ==
    \/ \E c \in ContractDates, p \in PaymentDays, v \in Values : register_customer(c, p, v)
    \/ \E cid \in CustomerIds : record_payment(cid)
    \/ \E cid \in CustomerIds, s \in {"Active", "Inactive"} : update_customer_status(cid, s)
    \/ \E rows \in ImportInputs : import_excel_data(rows)
    \/ monitor_setup_triggers
    \/ \E filter \in StatusFilters : get_all_customers(filter)
    \/ Tick

SpecList == Init /\ [][NextList]_vars

(***************************************************************************)
(* Properties                                                              *)
(***************************************************************************)
Unpaid(db, cid) == {p \in db.payments : p.customer_id = cid /\ p.payment_made = 0}

PaymentsOf(db, cid) == {p \in db.payments : p.customer_id = cid}

StaysPaid(before, after) ==
    \A p \in before.payments :
        p.payment_made = 1 =>
            \E q \in after.payments : q.payment_id = p.payment_id /\ q.payment_made = 1

\* C1: a payment record whose payment_made flag is true keeps it true in
\* every later step, in the committed store and in the view of the
\* DatabaseManager connection.
PaidFlagMonotonic == [][StaysPaid(store, store') /\ StaysPaid(work, work')]_vars

\* C1 witness: a paid record exists and a later import has run over it
PaidFlagMonotonicWitness ==
    /\ \E p \in store.payments : p.payment_made = 1
    /\ result.op = "import_excel_data"
    /\ ~result.ok

\* C2: each customer has at most one payment record with payment_made = 0
AtMostOneUnpaid ==
    \A cid \in CustomerIds :
        /\ Cardinality(Unpaid(store, cid)) <= 1
        /\ Cardinality(Unpaid(work, cid)) <= 1

\* C2 witness: two customers registered, one has paid, the other still owes
AtMostOneUnpaidWitness ==
    \E p, q \in store.payments :
        /\ p.customer_id # q.customer_id
        /\ p.payment_made = 1
        /\ q.payment_made = 0
        /\ result.op = "record_payment"

\* C3: an import that reports a failure leaves no customer, payment method
\* or payment record of that import in the committed store.
ImportAllOrNothing ==
    [][\A rows \in ImportInputs :
          (import_excel_data(rows) /\ ~result'.ok) =>
              /\ store'.customers = store.customers
              /\ store'.payment_methods = store.payment_methods
              /\ store'.payments = store.payments]_vars

\* C4: the committed store never holds a customer or a payment method
\* without the customer's payment record (all three or none).
RegistrationAtomic ==
    /\ \A c \in store.customers :
          /\ \E m \in store.payment_methods : m.customer_id = c.customer_id
          /\ PaymentsOf(store, c.customer_id) # {}
    /\ \A m \in store.payment_methods :
          /\ \E c \in store.customers : c.customer_id = m.customer_id
          /\ PaymentsOf(store, m.customer_id) # {}

\* C5: registering valid data succeeds, also on the freshly initialised
\* store, and leaves exactly one unpaid record with no paid date, the given
\* amount and the computed due date for the new customer.
RegistrationCreatesFirstPayment ==
    [][\A c \in ContractDates, d \in PaymentDays, v \in Values :
          (register_customer(c, d, v) /\ first_due_date(c, d, today) # NoDate) =>
              /\ result'.ok
              /\ PaymentsOf(store', result'.cid) =
                    {[payment_id |-> store.seq_payments + 1,
                      customer_id |-> result'.cid,
                      payment_date |-> NoDate,
                      due_date |-> first_due_date(c, d, today),
                      value |-> v,
                      payment_made |-> 0]}]_vars

\* C6: with the notification relation in place, registration computes a
\* due date for every payment_day (no failure), the date is a valid
\* calendar date and it is not before the contract start date.
FirstDueDateValidNotBeforeContract ==
    [][\A c \in ContractDates, d \in PaymentDays, v \in Values :
          (register_customer(c, d, v) /\ notifTables) =>
              /\ ~result'.raised
              /\ result'.ok
              /\ \A p \in PaymentsOf(store', result'.cid) :
                    ValidDate(p.due_date) /\ DateLE(c, p.due_date)]_vars

\* payment_day in the month after dt, clamped to that month's last day
NextMonthDay(dt) ==
    LET y == IF dt.m = 12 THEN dt.y + 1 ELSE dt.y
        m == IF dt.m = 12 THEN 1 ELSE dt.m + 1
    IN D(y, m, IF dt.d > DaysInMonth(y, m) THEN DaysInMonth(y, m) ELSE dt.d)

\* C7: the first due date is payment_day in the contract month, advanced
\* to the following month exactly when that date is before the current
\* date, and a successful registration never stores a due date in the past.
FirstDueDateRollover ==
    [][\A c \in ContractDates, d \in PaymentDays, v \in Values :
          (register_customer(c, d, v) /\ result'.ok) =>
              \A p \in PaymentsOf(store', result'.cid) :
                  /\ p.due_date = IF DateLT(D(c.y, c.m, d), today)
                                  THEN NextMonthDay(D(c.y, c.m, d))
                                  ELSE D(c.y, c.m, d)
                  /\ ~DateLT(p.due_date, today)]_vars

\* C8: record_payment for a customer without an unpaid record reports a
\* failure and leaves the store unchanged.
RecordPaymentFailsWithoutOutstanding ==
    [][\A cid \in CustomerIds :
          (record_payment(cid) /\ Unpaid(work, cid) = {}) =>
              /\ ~result'.ok
              /\ store' = store]_vars

\* C9: a successful record_payment marks the customer's unpaid record paid
\* with today's date, appends exactly one INFO notification for the
\* customer, and leaves every other record, due date and amount unchanged.
RecordPaymentEffect ==
    [][\A cid \in CustomerIds :
          (record_payment(cid) /\ Unpaid(work, cid) # {} /\ result'.ok) =>
              /\ \A p \in Unpaid(work, cid) :
                    [p EXCEPT !.payment_made = 1, !.payment_date = today]
                        \in store'.payments
              /\ \A p \in work.payments :
                    p.customer_id # cid => p \in store'.payments
              /\ \A q \in store'.payments :
                    \E p \in work.payments :
                        /\ p.payment_id = q.payment_id
                        /\ p.due_date = q.due_date
                        /\ p.value = q.value
              /\ \E n \in store'.payment_notifications :
                    /\ n.customer_id = cid
                    /\ n.status = "INFO"
                    /\ store'.payment_notifications = work.payment_notifications \cup {n}
                    /\ n \notin work.payment_notifications]_vars

\* C10: service_status holds at most one row per customer
OneStatusRowPerCustomer ==
    \A cid \in CustomerIds :
        Cardinality({s \in store.service_status : s.customer_id = cid}) <= 1


StatusRows(db, cid) == {s \in db.service_status : s.customer_id = cid}

\* C11: a customer without a service_status row is listed by the overdue
\* query, is displayed as "Active" in the expired-payments list, and the
\* first manual toggle on it stores a deactivation (is_active = 0).
NoStatusRowMeansActive ==
    [][\A item \in expired_tree :
          (/\ toggle_selected_service(item, "none")
           /\ StatusRows(mview, item.customer_id) = {}
           /\ item.status_id = 0
           /\ result'.ok) =>
              /\ item.status = "Active"
              /\ \E s \in store'.service_status :
                    /\ s \notin store.service_status
                    /\ s.customer_id = item.customer_id
                    /\ s.is_active = 0]_vars

NewNotifications(before, after) ==
    after.payment_notifications \ before.payment_notifications

\* C12: every successful status change, by toggle_service_status or by
\* update_customer_status on an existing customer (also to the value it
\* already has), adds exactly one notification, of category INFO, for that
\* customer.
StatusChangeEmitsOneInfo ==
    [][/\ \A item \in expired_tree :
             (toggle_selected_service(item, "none") /\ result'.ok) =>
                 \E n \in store'.payment_notifications :
                     /\ NewNotifications(store, store') = {n}
                     /\ n.status = "INFO"
                     /\ n.customer_id = item.customer_id
       /\ \A cid \in CustomerIds, s \in {"Active", "Inactive"} :
             (/\ update_customer_status(cid, s)
              /\ \E c \in work.customers : c.customer_id = cid
              /\ result'.ok) =>
                 \E n \in store'.payment_notifications :
                     /\ NewNotifications(store, store') = {n}
                     /\ n.status = "INFO"
                     /\ n.customer_id = cid]_vars

UnpaidOverdue(db, now) ==
    {p \in db.payments : p.payment_made = 0 /\ DateLT(p.due_date, now)}

\* C13: a sweep lists every unpaid payment record whose due date is before
\* today exactly once, whatever the customer's service status, lists
\* nothing else, and leaves the store unchanged.
OverdueQueryComplete ==
    [][check_payments =>
          /\ \A p \in UnpaidOverdue(mview, today) :
                Cardinality({r \in expired_tree' : r.payment_id = p.payment_id}) = 1
          /\ \A r \in expired_tree' :
                \E p \in UnpaidOverdue(mview, today) : p.payment_id = r.payment_id
          /\ store' = store]_vars

\* C14: after a sweep, the notification log holds, for every unpaid record
\* whose due date has passed, a PENDING notification for its customer that
\* was written after the due date.
SweepFlagsOverdue ==
    [][check_payments =>
          \A p \in UnpaidOverdue(mview, today) :
              \E n \in store'.payment_notifications :
                  /\ n.customer_id = p.customer_id
                  /\ n.status = "PENDING"
                  /\ DateLT(p.due_date, n.notification_date)]_vars

\* C15: a second sweep on the same date over unchanged data leaves the
\* notification log (and the notification text and the list on screen) as
\* the first sweep left it; no entry is added twice.
SweepIdempotent ==
    [][(check_payments /\ sweeps >= 1) =>
          /\ store'.payment_notifications = store.payment_notifications
          /\ mview'.payment_notifications = mview.payment_notifications
          /\ notif_text' = notif_text
          /\ expired_tree' = expired_tree]_vars

\* C15 witness: two sweeps in a row have run over an overdue record
SweepIdempotentWitness ==
    /\ sweeps = 2
    /\ result.op = "check_payments"
    /\ expired_tree # {}
    /\ store.payment_notifications # {}

CustomerStates(db) == {<<c.customer_id, c.state>> : c \in db.customers}

\* C16: a sweep step changes no service_status row and no customer state;
\* service_status changes only in a toggle step, and the state of an
\* existing customer changes only in an update_customer_status step.
SweepNeverChangesStatus ==
    [][/\ check_payments =>
             /\ store'.service_status = store.service_status
             /\ mview'.service_status = mview.service_status
             /\ CustomerStates(store') = CustomerStates(store)
             /\ CustomerStates(work') = CustomerStates(work)
       /\ store'.service_status # store.service_status =>
             result'.op = "toggle_service_status"
       /\ (\E c \in store.customers : <<c.customer_id, c.state>> \notin CustomerStates(store')) =>
             result'.op = "update_customer_status"]_vars

\* C16 witness: a sweep has run over a record that is more than two months
\* overdue, for a customer whose service was toggled before
SweepNeverChangesStatusWitness ==
    /\ result.op = "check_payments"
    /\ today = D(2024, 3, 31)
    /\ \E r \in expired_tree :
          /\ r.due_date = D(2024, 1, 20)
          /\ StatusRows(store, r.customer_id) # {}

\* the 4-way rule: Paid, Expired/Overdue, Critical, OK
FourWay(paid, delta) ==
    IF paid THEN "Paid"
    ELSE IF delta < 0 THEN "Expired"
    ELSE IF delta <= 30 THEN "Critical" ELSE "OK"

\* the labels of the surfaces in the words of the rule: Overdue is Expired,
\* Warning is OK, a row outside both metrics is OK; Pending leaves the
\* choice between Critical and OK open
SameClass(label, class) ==
    \/ label = class
    \/ label = "Overdue" /\ class = "Expired"
    \/ label = "Pending" /\ class \in {"Critical", "OK"}
    \/ label \in {"Warning", "none"} /\ class = "OK"

\* C17: for every (paid, due date, today) the customer-list status, the
\* bin of process_expiration_data and the metric of
\* show_expiration_analysis are the class of the 4-way rule (the two
\* expiration surfaces know no paid flag: compared on unpaid records).
SurfacesClassifyAlike ==
    report.shown =>
        /\ SameClass(report.payment_status, FourWay(report.paid, report.delta))
        /\ ~report.paid =>
              /\ SameClass(report.status, FourWay(FALSE, report.delta))
              /\ SameClass(report.counted, FourWay(FALSE, report.delta))

\* C18: a toggle_service_status, record_payment or update_customer_status
\* call that reports a failure leaves the committed store as it was, and
\* no later commit persists what the failed call wrote: a successful
\* toggle commits one service_status row and one notification, its own.
FailedCallRolledBack ==
    [][/\ \A item \in expired_tree, fault \in Faults :
             (toggle_selected_service(item, fault) /\ ~result'.ok) => store' = store
       /\ \A cid \in CustomerIds :
             (record_payment(cid) /\ ~result'.ok) => store' = store
       /\ \A cid \in CustomerIds, s \in {"Active", "Inactive"} :
             (update_customer_status(cid, s) /\ ~result'.ok) => store' = store
       /\ \A item \in expired_tree, fault \in Faults :
             (toggle_selected_service(item, fault) /\ result'.ok) =>
                 /\ Cardinality(store'.service_status \ store.service_status) = 1
                 /\ Cardinality(NewNotifications(store, store')) = 1]_vars

\* C19: a scheduled sweep on the background thread returns the rows of its
\* own overdue query (no exception leaves it) and the background thread
\* keeps running; manual actions are not blocked by it.
ScheduledSweepCompletes ==
    [][scheduled_check_payments =>
          /\ ~result'.raised
          /\ bg' = "running"
          /\ expired_tree' = refresh_expired_payments(mview, today)]_vars

\* the derived status of a payment record
CycleStatus(p, now) ==
    IF p.payment_made = 1 THEN "PAID"
    ELSE IF DateLT(p.due_date, now) THEN "OVERDUE" ELSE "PENDING"

\* C20: once a customer's records are all paid, an unpaid record for the
\* next cycle, due 30 days after a paid record's due date, eventually
\* exists for that customer; and a record's derived status never moves
\* backwards (PAID stays PAID, OVERDUE never becomes PENDING).
BillingCycleContinues ==
    /\ \A cid \in CustomerIds :
          (PaymentsOf(store, cid) # {} /\ Unpaid(store, cid) = {}) ~>
              (\E p \in Unpaid(store, cid) : \E q \in PaymentsOf(store, cid) :
                  /\ q.payment_made = 1
                  /\ p.due_date = calculate_next_due_date(q.due_date))
    /\ [][\A p \in store.payments : \A q \in store'.payments :
             p.payment_id = q.payment_id =>
                 /\ CycleStatus(p, today) = "PAID" => CycleStatus(q, today') = "PAID"
                 /\ CycleStatus(p, today) = "OVERDUE" => CycleStatus(q, today') # "PENDING"]_vars

\* C21: after a successful toggle every row the expired-payments list
\* shows for that customer carries the status the toggle just set; a
\* customer that was deactivated is no longer listed as "Active", also when
\* it was activated before.
LastToggleWins ==
    [][\A item \in expired_tree :
          (toggle_selected_service(item, "none") /\ result'.ok) =>
              \A r \in expired_tree' :
                  r.customer_id = item.customer_id =>
                      r.status = IF item.status # "Active" THEN "Active" ELSE "Inactive"]_vars

\* C22: for every filter value Paid, Overdue, Pending the filtered call of
\* get_all_customers returns exactly the rows that the unfiltered call
\* labels with that value, customers without a payment record included.
FilterAgreesWithLabel ==
    [][\A filter \in StatusFilters \ {""} :
          get_all_customers(filter) =>
              listing'.rows = {r \in select_customers(work, today, "") :
                                  r.payment_status = filter}]_vars

====
